---- MODULE Spec2Model ----
(***************************************************************************)
(* Model of the voice-agent repository: the tool functions web_search      *)
(* (agent_gemini.py), web_search_mistral and check_weather (agent_v2.py),  *)
(* test_web_search (test_web_search.py) and the three entrypoint           *)
(* coroutines (agent_gemini.py, agent_v2.py, voice_executor_v1.py).        *)
(*                                                                         *)
(* One behaviour is one run of one function: Init is the idle process, a   *)
(* Call action binds the arguments and the environment, and the following  *)
(* actions are the statements of the function body in program order.       *)
(* Remote calls, the logger and the random module are the environment:     *)
(* each call either returns or raises, chosen with \E.                     *)
(***************************************************************************)
EXTENDS Integers, Sequences, FiniteSets, TLC

VARIABLES
    fn,          \* the function that is running ("idle" before the call)
    pc,          \* position in the body of fn
    context,     \* the RunContext argument of a tool function
    arg,         \* the query / city argument
    api_key,     \* os.getenv("MISTRAL_API_KEY")
    logFaulty,   \* TRUE when the configured logger may raise from a call
    now,         \* time.time(), in ticks
    start_time,  \* local start_time
    session_id,  \* local session_id
    log,         \* the records handed to the logger, in order
    calls,       \* the calls made to the Mistral SDK, in order
    outcomes,    \* what each of those calls did: returned, or the exception raised
    agents,      \* the search agents that exist at the remote provider
    search_agent,\* local search_agent (its id), NoAgent before creation
    response,    \* local response (model_dump() of the conversation)
    result,      \* local result
    current_month, \* local current_month of check_weather (0 before it is read)
    weather_data,  \* local weather_data of check_weather
    exc,         \* the exception in flight or being handled, NoExc if none
    ret,         \* the value returned by fn, NoRet before the return
    raised,      \* the exception that left fn, NoExc if none
    sess         \* the entry point's Session bookkeeping

vars == <<fn, pc, context, arg, api_key, logFaulty, now, start_time, session_id, log, calls,
          outcomes,
          agents, search_agent, response, result, current_month, weather_data,
          exc, ret, raised, sess>>

----------------------------------------------------------------------------
(* Values *)

None == "<None>"
NoAgent == "<no agent>"
NoExc == [type |-> "<none>", message |-> ""]
NoRet == [none |-> TRUE]

Exception(t, m) == [type |-> t, message |-> m]

\* What a failing call of the Mistral SDK raises.
RemoteErrors == { Exception("SDKError", "API error occurred: Status 429"),
                  Exception("ConnectError", "connection refused") }

\* What a failing logger call raises.
LogError == Exception("OSError", "cannot write log file")

\* Outcome of a remote call: "ok" or the exception it raises.
Outcomes == {Exception("<ok>", "")} \cup RemoteErrors
IsOk(o) == o.type = "<ok>"

\* Outcome of a logger call: it can only raise when the logger is faulty.
LogOutcomes == IF logFaulty THEN {TRUE, FALSE} ELSE {TRUE}

----------------------------------------------------------------------------
(* Arguments and environment of the tool functions *)

SearchFns == {"web_search", "web_search_mistral", "test_web_search"}
ToolFns == SearchFns \cup {"check_weather"}

\* The RunContext argument: None, a context without a session_id attribute,
\* or a context that carries one.
NoContext == [present |-> FALSE, has_session_id |-> FALSE, session_id |-> ""]
Contexts == { NoContext,
              [present |-> TRUE, has_session_id |-> FALSE, session_id |-> ""],
              [present |-> TRUE, has_session_id |-> TRUE, session_id |-> "room-1"] }

\* getattr(context, 'session_id', 'unknown') if context else 'no_context'
SessionIdOf(c) ==
    IF c.present
    THEN IF c.has_session_id THEN c.session_id ELSE "unknown"
    ELSE "no_context"

Queries == {"Latest news about artificial intelligence", "cricket score"}

\* os.getenv("MISTRAL_API_KEY"): unset, set to the empty string, or set.
ApiKeys == {None, "", "sk-1"}

\* Variant of Truthy that tests only for None (an empty key counts as set).
TruthyIsNotNone(v) == v # None

\* Python truth value of an optional string.
Truthy(v) == v # None /\ v # ""

----------------------------------------------------------------------------
(* The conversation response, as response.model_dump() *)

Chunk(t) == [hasText |-> TRUE, text |-> t]
RefChunk == [hasText |-> FALSE, text |-> ""]
Entry(c) == [hasContent |-> TRUE, content |-> c]
ToolEntry == [hasContent |-> FALSE, content |-> <<>>]
Dump(o) == [hasOutputs |-> TRUE, outputs |-> o]
NoResponse == [hasOutputs |-> FALSE, outputs |-> <<>>]

Responses ==
    { Dump(<<ToolEntry, Entry(<<Chunk("AI news today")>>)>>),   \* the usual shape
      Dump(<<ToolEntry, Entry(<<Chunk("")>>)>>),                \* empty answer
      Dump(<<Entry(<<Chunk("no search needed")>>)>>),           \* one output only
      Dump(<<>>),                                               \* no outputs
      Dump(<<ToolEntry, ToolEntry>>),                           \* no content key
      Dump(<<ToolEntry, Entry(<<>>)>>),                         \* empty content
      Dump(<<ToolEntry, Entry(<<RefChunk, Chunk("x")>>)>>),     \* first chunk has no text
      NoResponse }                                              \* no outputs key

Extracted(t) == [ok |-> TRUE, text |-> t, exc |-> NoExc]
ExtractFails(e) == [ok |-> FALSE, text |-> "", exc |-> e]

\* response.model_dump()['outputs'][1]['content'][0]['text']
ExtractText(r) ==
    IF ~r.hasOutputs THEN ExtractFails(Exception("KeyError", "'outputs'"))
    ELSE IF Len(r.outputs) < 2
    THEN ExtractFails(Exception("IndexError", "list index out of range"))
    ELSE LET e == r.outputs[2] IN
         IF ~e.hasContent THEN ExtractFails(Exception("KeyError", "'content'"))
         ELSE IF Len(e.content) < 1
         THEN ExtractFails(Exception("IndexError", "list index out of range"))
         ELSE IF ~e.content[1].hasText
         THEN ExtractFails(Exception("KeyError", "'text'"))
         ELSE Extracted(e.content[1].text)

----------------------------------------------------------------------------
(* Log records and messages *)

Record(level, message, extra) == [level |-> level, message |-> message, extra |-> extra]

InitiatedMessage(f) ==
    CASE f = "web_search" -> "Web search initiated"
      [] f = "web_search_mistral" -> "Web search initiated"
      [] f = "test_web_search" -> "Web search test initiated"
      [] f = "check_weather" -> "Weather check initiated"

CompletedMessage(f) ==
    CASE f = "web_search" -> "Web search operation completed"
      [] f = "web_search_mistral" -> "Web search operation completed"
      [] f = "test_web_search" -> "Web search test completed"
      [] f = "check_weather" -> "Weather check completed successfully"

FailedMessage(f) ==
    CASE f = "web_search" -> "Web search failed with exception"
      [] f = "web_search_mistral" -> "Web search failed with exception"
      [] f = "test_web_search" -> "Web search test failed with exception"
      [] f = "check_weather" -> "Weather check failed with exception"

\* A variant in which the test script words its failure after its log message.
ErrorPrefixPerFunction(f) ==
    CASE f = "check_weather" -> "Weather check failed: "
      [] f = "test_web_search" -> "Web search test failed: "
      [] OTHER -> "Web search failed: "

\* The prefix of the f-string returned by the except clause.
ErrorPrefix(f) ==
    IF f = "check_weather" THEN "Weather check failed: " ELSE "Web search failed: "

\* extra= of the initiation record.
InitiatedExtra(f, a, sid, t) ==
    IF f = "check_weather"
    THEN [city |-> a, session_id |-> sid, timestamp |-> t, function |-> f]
    ELSE [query |-> a, session_id |-> sid, timestamp |-> t, function |-> f]

\* Variant of FailedExtra that logs str(e) where the type name belongs.
FailedExtraMessageAsType(f, a, sid, e, d) ==
    [query |-> a, session_id |-> sid, error_type |-> e.message,
     error_message |-> e.message, total_duration_seconds |-> d, success |-> FALSE]

\* extra= of the record logged by the except clause.
FailedExtra(f, a, sid, e, d) ==
    IF f = "check_weather"
    THEN [city |-> a, session_id |-> sid, error_type |-> e.type,
          error_message |-> e.message, total_duration_seconds |-> d, success |-> FALSE]
    ELSE [query |-> a, session_id |-> sid, error_type |-> e.type,
          error_message |-> e.message, total_duration_seconds |-> d, success |-> FALSE]

----------------------------------------------------------------------------
(* check_weather: strings, draws and the payload.  Temperatures, speeds    *)
(* and distances are in tenths (the code rounds them to one decimal),      *)
(* coordinates in 1/10000 degree (rounded to four decimals).               *)

\* The letters of the model's city names, lower case and upper case.
LowerLetters == <<"a", "i", "p", "r", "s">>
UpperLetters == <<"A", "I", "P", "R", "S">>
LetterIndex(letters, c) == CHOOSE k \in 1..Len(letters) : letters[k] = c
IsLower(c) == \E k \in 1..Len(LowerLetters) : LowerLetters[k] = c
IsUpper(c) == \E k \in 1..Len(UpperLetters) : UpperLetters[k] = c
IsCased(c) == IsLower(c) \/ IsUpper(c)
ToUpper(c) == IF IsLower(c) THEN UpperLetters[LetterIndex(LowerLetters, c)] ELSE c
ToLower(c) == IF IsUpper(c) THEN LowerLetters[LetterIndex(UpperLetters, c)] ELSE c

\* Variant of Title that behaves like str.capitalize(): only the first
\* character is upper-cased, every other one lower-cased.
TitleCapitalize(str) ==
    [k \in 1..Len(str) |-> IF k = 1 THEN ToUpper(str[k]) ELSE ToLower(str[k])]

\* str.title(): a cased character is upper-cased when the character before
\* it is not cased (or there is none) and lower-cased otherwise.
Title(str) ==
    [k \in 1..Len(str) |->
        IF k > 1 /\ IsCased(str[k - 1]) THEN ToLower(str[k]) ELSE ToUpper(str[k])]

\* The city argument: a string (a sequence of characters), or None.
Str(chars) == [none |-> FALSE, chars |-> chars]
NoneCity == [none |-> TRUE, chars |-> <<>>]
Cities == { Str(<<"P", "a", "r", "i", "s">>),
            Str(<<"p", "A", "R", "I", "S">>),
            Str(<<"s", "a", " ", "p", "a", "r">>),
            Str(<<"i", "'", "s">>),
            NoneCity }

\* round(random.uniform(a, b), 1), in tenths: the two ends of the range.
Uniform(a, b) == {a * 10, b * 10}

\* random.randint(a, b) over a short range.
RandInt(a, b) == a..b

\* The draws whose values the code does not combine with one another
\* (humidity, pressure, wind, visibility, UV index, coordinates, country, sun
\* times) are taken together at the low or at the high end of their ranges.
Ends == {"low", "high"}
End(e, a, b) == IF e = "low" THEN a ELSE b

\* temp_base by season.
SeasonRange(month) ==
    IF month \in {12, 1, 2} THEN <<-5, 15>>
    ELSE IF month \in {3, 4, 5} THEN <<10, 25>>
    ELSE IF month \in {6, 7, 8} THEN <<20, 35>>
    ELSE <<5, 20>>

SeasonBase(month) == Uniform(SeasonRange(month)[1], SeasonRange(month)[2])

Condition(m, d, i) == [main |-> m, description |-> d, icon |-> i]

weather_conditions ==
    << Condition("Clear", "clear sky", "01d"),
       Condition("Clouds", "few clouds", "02d"),
       Condition("Clouds", "scattered clouds", "03d"),
       Condition("Clouds", "broken clouds", "04d"),
       Condition("Clouds", "overcast clouds", "04d"),
       Condition("Rain", "light rain", "10d"),
       Condition("Rain", "moderate rain", "10d"),
       Condition("Rain", "heavy rain", "10d"),
       Condition("Thunderstorm", "thunderstorm", "11d"),
       Condition("Snow", "light snow", "13d"),
       Condition("Mist", "mist", "50d"),
       Condition("Fog", "fog", "50d") >>

\* The second random draw of the temperature, by condition: the amount
\* subtracted for Rain and Thunderstorm, the new base for Snow.
AdjustDraws(main) ==
    IF main = "Rain" THEN Uniform(2, 8)
    ELSE IF main = "Snow" THEN Uniform(-15, 5)
    ELSE IF main = "Thunderstorm" THEN Uniform(3, 10)
    ELSE {0}

\* Variant of AdjustedBase in which snow lowers the seasonal base by its draw.
AdjustedBaseSnowSubtracts(base, main, draw) ==
    IF main \in {"Rain", "Snow", "Thunderstorm"} THEN base - draw ELSE base

\* temp_base after the adjustment for the selected condition.
AdjustedBase(base, main, draw) ==
    IF main = "Rain" THEN base - draw
    ELSE IF main = "Snow" THEN draw
    ELSE IF main = "Thunderstorm" THEN base - draw
    ELSE base

\* Variant of Humidity drawing from 0..100.
HumidityFromZero(e) == End(e, 0, 100)

Humidity(e) == End(e, 20, 100)
Pressure(e) == End(e, 980, 1040)
WindSpeed(e) == End(e, 0, 250)
WindDirection(e) == End(e, 0, 360)
\* round(wind_speed + random.uniform(0, 10), 1) if wind_speed > 5 else wind_speed
WindGust(speed, e) == IF speed > 50 THEN speed + End(e, 0, 100) ELSE speed
Visibility(e) == End(e, 10, 200)
UvIndex(e) == End(e, 0, 11)
Latitude(e) == End(e, -900000, 900000)
Longitude(e) == End(e, -1800000, 1800000)
Countries == <<"US", "UK", "CA", "AU", "DE", "FR", "JP", "IN", "BR", "CN">>
Country(e) == Countries[End(e, 1, Len(Countries))]
\* sunrise.strftime("%H:%M") / sunset.strftime("%H:%M"), as <<hour, minute>>
Sunrise(e) == <<End(e, 5, 8), End(e, 0, 59)>>
Sunset(e) == <<End(e, 17, 20), End(e, 0, 59)>>

AirQualityDescriptions == <<"Good", "Fair", "Moderate", "Poor", "Very Poor">>

\* A number of tenths as Python prints the float.
Tenths(t) ==
    LET a == IF t < 0 THEN -t ELSE t IN
    (IF t < 0 THEN "-" ELSE "") \o ToString(a \div 10) \o "." \o ToString(a % 10)

\* The weather_data literal.
WeatherData(city, selected_weather, temperature, feels_like, air_quality, e, t, t0) ==
    [ location |->
        [ city |-> Title(city.chars),
          country |-> Country(e),
          coordinates |-> [latitude |-> Latitude(e), longitude |-> Longitude(e)] ],
      current |->
        [ timestamp |-> t,
          temperature |-> [current |-> temperature, feels_like |-> feels_like,
                           unit |-> "°C"],
          weather |-> [main |-> selected_weather.main,
                       description |-> selected_weather.description,
                       icon |-> selected_weather.icon],
          atmospheric |-> [humidity |-> Humidity(e), pressure |-> Pressure(e),
                           pressure_unit |-> "hPa", visibility |-> Visibility(e),
                           visibility_unit |-> "km"],
          wind |-> [speed |-> WindSpeed(e), direction |-> WindDirection(e),
                    gust |-> WindGust(WindSpeed(e), e), unit |-> "km/h"],
          sun |-> [sunrise |-> Sunrise(e), sunset |-> Sunset(e)],
          indices |-> [uv_index |-> UvIndex(e),
                       air_quality_index |-> air_quality,
                       air_quality_description |-> AirQualityDescriptions[air_quality]] ],
      forecast |->
        [ summary |-> "Expect " \o selected_weather.description
                        \o " with temperatures around " \o Tenths(temperature) \o "°C",
          next_24h |-> "Conditions will remain similar with slight temperature variations" ],
      metadata |->
        [ source |-> "Mock Weather Service",
          last_updated |-> t,
          response_time_ms |-> (t - t0) * 1000 ] ]

----------------------------------------------------------------------------
(* Initial state: the process before any function is called *)

\* The Session of an entry point and what the run has done with it.
NoSession ==
    [ state |-> "Unstarted",   \* Unstarted, Starting, Active, Failed
      constructed |-> FALSE,   \* AgentSession(...) returned
      start_calls |-> 0,       \* calls of session.start
      connect_calls |-> 0,     \* calls of ctx.connect
      start_done |-> FALSE,    \* session.start returned
      connect_done |-> FALSE,  \* ctx.connect returned
      entered |-> FALSE,       \* the persona's on_enter hook has run
      greetings |-> <<>>,      \* who called generate_reply, in order
      handlers |-> <<>>,       \* the except clauses that ran
      printed |-> <<>>,        \* the lines printed
      warnings |-> 0,          \* calls of warnings.warn
      pending |-> NoExc ]      \* the exception to re-raise after finally

Boot(faulty) ==
    /\ fn = "idle"
    /\ pc = "idle"
    /\ context = NoContext
    /\ arg = None
    /\ api_key \in ApiKeys
    /\ logFaulty = faulty
    /\ now = 0
    /\ start_time = 0
    /\ session_id = ""
    /\ log = <<>>
    /\ calls = <<>>
    /\ outcomes = <<>>
    /\ agents = {}
    /\ search_agent = NoAgent
    /\ response = NoResponse
    /\ result = ""
    /\ current_month = 0
    /\ weather_data = NoRet
    /\ exc = NoExc
    /\ ret = NoRet
    /\ raised = NoExc
    /\ sess = NoSession

\* The process with the logger as the modules configure it.
Init == Boot(FALSE)

\* The process with a logger whose calls may raise.
InitLog == Boot(TRUE)

----------------------------------------------------------------------------
(* Steps shared by the tool functions *)

\* A logger call inside the try block at position pc: on success the record
\* is appended and control moves to `next`; when the call raises, control
\* moves to the except clause with the logger's exception.
LogInTry(rec, next) ==
    \E lo \in LogOutcomes :
        IF lo
        THEN /\ log' = Append(log, rec)
             /\ pc' = next
             /\ exc' = exc
        ELSE /\ log' = log
             /\ pc' = "except"
             /\ exc' = LogError

\* The call of a search tool: start_time = time.time(); session_id = ...
\* (test_web_search takes session_id as an argument instead of a context).
InvokeSearch ==
    /\ pc = "idle"
    /\ \E f \in SearchFns, c \in Contexts, q \in Queries :
          /\ fn' = f
          /\ context' = c
          /\ arg' = q
          /\ session_id' = IF f = "test_web_search" THEN "test_session" ELSE SessionIdOf(c)
    /\ start_time' = now
    /\ pc' = "initiate"
    /\ UNCHANGED <<api_key, logFaulty, now, log, calls, outcomes, agents, search_agent,
                   response, result, exc, ret, raised, current_month, weather_data, sess>>

\* logger.info("... initiated", ...): before the try block, so an exception of
\* the logger leaves the function.
LogInitiated ==
    /\ pc = "initiate"
    /\ \E lo \in LogOutcomes :
          IF lo
          THEN /\ log' = Append(log, Record("INFO", InitiatedMessage(fn),
                                           InitiatedExtra(fn, arg, session_id, now)))
               /\ pc' = IF fn = "check_weather" THEN "sleep" ELSE "check_key"
               /\ raised' = raised
          ELSE /\ log' = log
               /\ pc' = "raised"
               /\ raised' = LogError
    /\ UNCHANGED <<fn, context, arg, api_key, logFaulty, now, start_time, session_id,
                   calls, outcomes, agents, search_agent, response, result, exc, ret, current_month, weather_data, sess>>

\* api_key = os.getenv("MISTRAL_API_KEY"); if not api_key: ... return {"error": ...}
CheckApiKey ==
    /\ pc = "check_key"
    /\ IF ~Truthy(api_key)
       THEN \E lo \in LogOutcomes :
               IF lo
               THEN /\ log' = Append(log, Record("ERROR", "Mistral API key not configured",
                                [query |-> arg, session_id |-> session_id,
                                 error |-> "missing_api_key"]))
                    /\ ret' = [error |-> "Mistral API key not configured"]
                    /\ pc' = "done"
                    /\ exc' = exc
               ELSE /\ log' = log
                    /\ ret' = ret
                    /\ pc' = "except"
                    /\ exc' = LogError
       ELSE /\ LogInTry(Record("DEBUG", "API key validation successful",
                               [session_id |-> session_id, has_api_key |-> TRUE]), "client")
            /\ ret' = ret
    /\ UNCHANGED <<fn, context, arg, api_key, logFaulty, now, start_time, session_id,
                   calls, outcomes, agents, search_agent, response, result, raised, current_month, weather_data, sess>>

\* client = Mistral(api_key=api_key)
InitClient ==
    /\ pc = "client"
    /\ calls' = Append(calls, "Mistral")
    /\ \E o \in Outcomes :
          /\ outcomes' = Append(outcomes, o)
          /\ IF IsOk(o)
             THEN LogInTry(Record("DEBUG", "Mistral client initialized",
                                  [session_id |-> session_id]), "create")
             ELSE /\ log' = log
                  /\ pc' = "except"
                  /\ exc' = o
    /\ UNCHANGED <<fn, context, arg, api_key, logFaulty, now, start_time, session_id,
                   agents, search_agent, response, result, ret, raised, current_month, weather_data, sess>>

\* The id the provider gives the agent created by this invocation.
NewAgentId == "ag_1"

\* search_agent = client.beta.agents.create(...)
CreateAgent ==
    /\ pc = "create"
    /\ calls' = Append(calls, "agents.create")
    /\ now' = now + 1
    /\ \E o \in Outcomes :
          /\ outcomes' = Append(outcomes, o)
          /\ IF IsOk(o)
             THEN /\ search_agent' = NewAgentId
                  /\ agents' = agents \cup {NewAgentId}
                  /\ LogInTry(Record("INFO", "Search agent created",
                                     [agent_id |-> NewAgentId, session_id |-> session_id,
                                      query |-> arg]), "search")
             ELSE /\ search_agent' = search_agent
                  /\ agents' = agents
                  /\ log' = log
                  /\ pc' = "except"
                  /\ exc' = o
    /\ UNCHANGED <<fn, context, arg, api_key, logFaulty, start_time, session_id,
                   response, result, ret, raised, current_month, weather_data, sess>>

\* response = client.beta.conversations.start(agent_id=..., inputs=[...])
StartConversation ==
    /\ pc = "search"
    /\ calls' = Append(calls, "conversations.start")
    /\ now' = now + 1
    /\ \E o \in Outcomes :
          /\ outcomes' = Append(outcomes, o)
          /\ IF IsOk(o)
             THEN /\ \E r \in Responses : response' = r
                  /\ pc' = "extract"
                  /\ exc' = exc
             ELSE /\ response' = response
                  /\ pc' = "except"
                  /\ exc' = o
    /\ UNCHANGED <<fn, context, arg, api_key, logFaulty, start_time, session_id, log,
                   agents, search_agent, result, ret, raised, current_month, weather_data, sess>>

\* result = response.model_dump()['outputs'][1]['content'][0]['text'], then
\* logger.info("Search completed successfully", ...).  The results of the
\* model are shorter than 100 characters, so result_preview is the result.
ExtractResult ==
    /\ pc = "extract"
    /\ LET x == ExtractText(response) IN
          IF x.ok
          THEN /\ result' = x.text
               /\ LogInTry(Record("INFO", "Search completed successfully",
                                  [query |-> arg, session_id |-> session_id,
                                   agent_id |-> search_agent,
                                   search_duration_seconds |-> 1,
                                   result_preview |-> x.text]), "delete")
          ELSE /\ result' = result
               /\ log' = log
               /\ pc' = "except"
               /\ exc' = x.exc
    /\ UNCHANGED <<fn, context, arg, api_key, logFaulty, now, start_time, session_id,
                   calls, outcomes, agents, search_agent, response, ret, raised, current_month, weather_data, sess>>

\* Variant of CleanupFailed without the inner try: the exception of the
\* deletion reaches the outer except clause.
CleanupEscalates(e) ==
    /\ log' = log
    /\ pc' = "except"
    /\ exc' = e

\* The except clause of the inner try: logger.warning("Agent cleanup failed").
CleanupFailed(e) ==
    LogInTry(Record("WARNING", "Agent cleanup failed",
                    [agent_id |-> search_agent, session_id |-> session_id,
                     cleanup_error |-> e.message]), "complete")

\* try: client.beta.agents.delete(agent_id=search_agent.id); logger.debug(...)
\* except Exception as cleanup_error: logger.warning(...)
DeleteAgent ==
    /\ pc = "delete"
    /\ calls' = Append(calls, "agents.delete")
    /\ now' = now + 1
    /\ \E o \in Outcomes :
          /\ outcomes' = Append(outcomes, o)
          /\ IF IsOk(o)
             THEN /\ agents' = agents \ {search_agent}
                  /\ \E lo \in LogOutcomes :
                        IF lo
                        THEN /\ log' = Append(log, Record("DEBUG", "Search agent cleanup successful",
                                         [agent_id |-> search_agent, session_id |-> session_id]))
                             /\ pc' = "complete"
                             /\ exc' = exc
                        ELSE CleanupFailed(LogError)
             ELSE /\ agents' = agents
                  /\ CleanupFailed(o)
    /\ UNCHANGED <<fn, context, arg, api_key, logFaulty, start_time, session_id,
                   search_agent, response, result, ret, raised, current_month, weather_data, sess>>

\* The value returned on success.
SuccessValue(f, r, w, d) ==
    IF f = "test_web_search" THEN [result |-> r, duration |-> d, success |-> TRUE]
    ELSE IF f = "check_weather" THEN w
    ELSE [result |-> r]

\* extra= of the completion record.
CompletedExtra(f, a, sid, w, d) ==
    IF f = "check_weather"
    THEN [city |-> a, session_id |-> sid,
          temperature |-> w.current.temperature.current,
          weather_condition |-> w.current.weather.main,
          total_duration_seconds |-> d, success |-> TRUE]
    ELSE [query |-> a, session_id |-> sid, total_duration_seconds |-> d,
          success |-> TRUE]

\* Variant of ErrorValue that also carries an empty "result".
ErrorValueWithResult(f, e, d) ==
    [error |-> ErrorPrefix(f) \o e.message, result |-> ""]

\* The value returned by the except clause.
ErrorValue(f, e, d) ==
    IF f = "test_web_search"
    THEN [error |-> ErrorPrefix(f) \o e.message, duration |-> d, success |-> FALSE]
    ELSE [error |-> ErrorPrefix(f) \o e.message]

\* total_duration = ...; logger.info("... completed", success=True);
\* return {"result": result} (check_weather: return weather_data)
Complete ==
    /\ pc = "complete"
    /\ \E lo \in LogOutcomes :
          IF lo
          THEN /\ log' = Append(log, Record("INFO", CompletedMessage(fn),
                            CompletedExtra(fn, arg, session_id, weather_data,
                                           now - start_time)))
               /\ ret' = SuccessValue(fn, result, weather_data, now - start_time)
               /\ pc' = "done"
               /\ exc' = exc
          ELSE /\ log' = log
               /\ ret' = ret
               /\ pc' = "except"
               /\ exc' = LogError
    /\ UNCHANGED <<fn, context, arg, api_key, logFaulty, now, start_time, session_id,
                   calls, outcomes, agents, search_agent, response, result, raised, current_month, weather_data, sess>>

\* except Exception as e: logger.error("... failed with exception", ...);
\* return {"error": f"... failed: {str(e)}"}
Except ==
    /\ pc = "except"
    /\ \E lo \in LogOutcomes :
          IF lo
          THEN /\ log' = Append(log, Record("ERROR", FailedMessage(fn),
                            FailedExtra(fn, arg, session_id, exc, now - start_time)))
               /\ ret' = ErrorValue(fn, exc, now - start_time)
               /\ pc' = "done"
               /\ raised' = raised
          ELSE /\ log' = log
               /\ ret' = ret
               /\ pc' = "raised"
               /\ raised' = LogError
    /\ UNCHANGED <<fn, context, arg, api_key, logFaulty, now, start_time, session_id,
                   calls, outcomes, agents, search_agent, response, result, exc, current_month, weather_data, sess>>

----------------------------------------------------------------------------
(* check_weather *)

\* The call of check_weather: start_time = time.time(); session_id = ...
InvokeWeather ==
    /\ pc = "idle"
    /\ fn' = "check_weather"
    /\ \E c \in Contexts, city \in Cities :
          /\ context' = c
          /\ arg' = city
          /\ session_id' = SessionIdOf(c)
    /\ start_time' = now
    /\ pc' = "initiate"
    /\ UNCHANGED <<api_key, logFaulty, now, log, calls, outcomes, agents, search_agent,
                   response, result, current_month, weather_data, exc, ret, raised, sess>>

\* await asyncio.sleep(random.uniform(0.1, 0.3))
WeatherSleep ==
    /\ pc = "sleep"
    /\ now' = now + 1
    /\ pc' = "generate"
    /\ UNCHANGED <<fn, context, arg, api_key, logFaulty, start_time, session_id, log,
                   calls, outcomes, agents, search_agent, response, result, current_month,
                   weather_data, exc, ret, raised, sess>>

\* current_month = datetime.now().month ... weather_data = {...}: the draws
\* and the literal.  city.title() raises AttributeError when city is None.
GenerateWeather ==
    /\ pc = "generate"
    /\ \E month \in 1..12 :
          /\ current_month' = month
          /\ IF arg.none
             THEN /\ weather_data' = weather_data
                  /\ pc' = "except"
                  /\ exc' = Exception("AttributeError",
                                      "'NoneType' object has no attribute 'title'")
             ELSE \E base \in SeasonBase(month), i \in 1..Len(weather_conditions) :
                  \E draw \in AdjustDraws(weather_conditions[i].main),
                     offset \in Uniform(-5, 5), air_quality \in RandInt(1, 5), e \in Ends :
                     LET selected_weather == weather_conditions[i]
                         temperature == AdjustedBase(base, selected_weather.main, draw)
                         feels_like == temperature + offset
                     IN /\ weather_data' =
                              WeatherData(arg, selected_weather, temperature, feels_like,
                                          air_quality, e, now, start_time)
                        /\ pc' = "complete"
                        /\ exc' = exc
    /\ UNCHANGED <<fn, context, arg, api_key, logFaulty, now, start_time, session_id, log,
                   calls, outcomes, agents, search_agent, response, result, ret, raised, sess>>

----------------------------------------------------------------------------
(* The entry points *)

GeminiEntry == "agent_gemini.entrypoint"
V2Entry == "agent_v2.entrypoint"
VoiceEntry == "voice_executor_v1.entrypoint"
EntryFns == {GeminiEntry, V2Entry, VoiceEntry}

\* What a failing call of the agent framework raises.
EntryErrors == { Exception("APIConnectionError", "Connection error."),
                 Exception("JSONDecodeError", "Expecting value: line 1 column 1 (char 0)"),
                 Exception("RuntimeError", "room closed") }
EntryOutcomes == {Exception("<ok>", "")} \cup EntryErrors

\* A variant whose first except clause names APIConnectionError only.
VendorErrorTypesWithoutJson == {"APIConnectionError"}

\* except (APIConnectionError, JSONDecodeError) as e
VendorErrorTypes == {"APIConnectionError", "JSONDecodeError"}

\* The call of an entry point.  voice_executor_v1 connects first; the other
\* two construct the session first.
InvokeEntrypoint ==
    /\ pc = "idle"
    /\ \E f \in EntryFns :
          /\ fn' = f
          /\ pc' = IF f = VoiceEntry THEN "connect" ELSE "construct"
    /\ UNCHANGED <<context, arg, api_key, logFaulty, now, start_time, session_id, log,
                   calls, outcomes, agents, search_agent, response, result, current_month,
                   weather_data, exc, ret, raised, sess>>

\* An exception raised by the statement at pc.  Inside the try block of
\* agent_v2.entrypoint it is handed to the except clauses; anywhere else it
\* leaves the entry point.
InTry(f, at) == f = V2Entry /\ at \in {"start", "connect", "greet"}

Throw(e) ==
    IF InTry(fn, pc)
    THEN /\ exc' = e
         /\ pc' = "handler"
         /\ raised' = raised
    ELSE /\ exc' = exc
         /\ pc' = "raised"
         /\ raised' = e

\* The Session's state after a failure at a point where it had state s.
FailedFrom(s) == IF s = "Unstarted" THEN "Unstarted" ELSE "Failed"

\* session = AgentSession(...)
ConstructSession ==
    /\ pc = "construct"
    /\ \E o \in EntryOutcomes :
          IF IsOk(o)
          THEN /\ sess' = [sess EXCEPT !.constructed = TRUE]
               /\ pc' = "start"
               /\ UNCHANGED <<exc, raised>>
          ELSE /\ sess' = sess
               /\ Throw(o)
    /\ UNCHANGED <<fn, context, arg, api_key, logFaulty, now, start_time, session_id, log,
                   calls, outcomes, agents, search_agent, response, result, current_month,
                   weather_data, ret>>

\* Variant of AfterStart that greets right after start, before connect.
AfterStartGreets(f) == IF f = VoiceEntry THEN "done" ELSE "greet"

\* Where control goes after session.start(...) returns.
AfterStart(f) == IF f = VoiceEntry THEN "done" ELSE "connect"

\* await session.start(room=ctx.room, agent=...)
SessionStart ==
    /\ pc = "start"
    /\ \E o \in EntryOutcomes :
          IF IsOk(o)
          THEN /\ sess' = [sess EXCEPT !.start_calls = @ + 1,
                                       !.start_done = TRUE,
                                       !.state = IF sess.connect_done THEN "Active"
                                                 ELSE "Starting"]
               /\ pc' = AfterStart(fn)
               /\ UNCHANGED <<exc, raised>>
          ELSE /\ sess' = [sess EXCEPT !.start_calls = @ + 1, !.state = "Failed"]
               /\ Throw(o)
    /\ UNCHANGED <<fn, context, arg, api_key, logFaulty, now, start_time, session_id, log,
                   calls, outcomes, agents, search_agent, response, result, current_month,
                   weather_data, ret>>

\* Variant of AfterConnect that starts the session again after connecting.
AfterConnectRestarts(f) == IF f = VoiceEntry THEN "construct" ELSE "start"

\* Where control goes after ctx.connect() returns.
AfterConnect(f) == IF f = VoiceEntry THEN "construct" ELSE "greet"

\* await ctx.connect()
Connect ==
    /\ pc = "connect"
    /\ \E o \in EntryOutcomes :
          IF IsOk(o)
          THEN /\ sess' = [sess EXCEPT !.connect_calls = @ + 1,
                                       !.connect_done = TRUE,
                                       !.state = IF sess.start_done THEN "Active" ELSE @]
               /\ pc' = AfterConnect(fn)
               /\ UNCHANGED <<exc, raised>>
          ELSE /\ sess' = [sess EXCEPT !.connect_calls = @ + 1,
                                       !.state = FailedFrom(@)]
               /\ Throw(o)
    /\ UNCHANGED <<fn, context, arg, api_key, logFaulty, now, start_time, session_id, log,
                   calls, outcomes, agents, search_agent, response, result, current_month,
                   weather_data, ret>>

\* Where control goes after the entry point's generate_reply returns.
AfterGreet(f) == IF f = V2Entry THEN "finally" ELSE "done"

\* await session.generate_reply(instructions="Greet the user ...")
Greet ==
    /\ pc = "greet"
    /\ \E o \in EntryOutcomes :
          IF IsOk(o)
          THEN /\ sess' = [sess EXCEPT !.greetings = Append(@, "entrypoint")]
               /\ pc' = AfterGreet(fn)
               /\ UNCHANGED <<exc, raised>>
          ELSE /\ sess' = [sess EXCEPT !.greetings = Append(@, "entrypoint"),
                                       !.state = "Failed"]
               /\ Throw(o)
    /\ UNCHANGED <<fn, context, arg, api_key, logFaulty, now, start_time, session_id, log,
                   calls, outcomes, agents, search_agent, response, result, current_month,
                   weather_data, ret>>

\* Variant of OnEnterGreetings in which every persona greets on entering.
OnEnterAlwaysGreets(f, g) == Append(g, "on_enter")

\* The greetings after the persona's on_enter hook: MyAgent.on_enter calls
\* self.session.generate_reply(); Assistant inherits the hook, which does
\* nothing.
OnEnterGreetings(f, g) == IF f = VoiceEntry THEN Append(g, "on_enter") ELSE g

\* The framework runs the persona's on_enter hook once, as a task of its own,
\* after session.start has put the persona in the session.
OnEnter ==
    /\ fn \in EntryFns
    /\ sess.start_done
    /\ ~sess.entered
    /\ sess' = [sess EXCEPT !.entered = TRUE,
                            !.greetings = OnEnterGreetings(fn, @)]
    /\ UNCHANGED <<fn, pc, context, arg, api_key, logFaulty, now, start_time, session_id,
                   log, calls, outcomes, agents, search_agent, response, result, current_month,
                   weather_data, exc, ret, raised>>

\* A logger call inside an except clause of agent_v2.entrypoint followed by
\* the print: when the logger raises, the print is skipped and the
\* logger's exception is re-raised after the finally block.
HandlerBody(name, rec, line) ==
    \E lo \in LogOutcomes :
        IF lo
        THEN /\ log' = Append(log, rec)
             /\ sess' = [sess EXCEPT !.handlers = Append(@, name),
                                     !.printed = Append(@, line)]
        ELSE /\ log' = log
             /\ sess' = [sess EXCEPT !.handlers = Append(@, name),
                                     !.pending = LogError]

\* except (APIConnectionError, JSONDecodeError) as e: logger.error(...); print(...)
HandleVendorError ==
    /\ pc = "handler"
    /\ exc.type \in VendorErrorTypes
    /\ HandlerBody("vendor",
                   Record("ERROR", "LLM streaming or API connection error encountered",
                          [error_type |-> exc.type, error_message |-> exc.message,
                           suggestion |-> "upgrade google-generativeai and aiohttp"]),
                   "[ERROR] LLM streaming/API connection error. Consider upgrading google-generativeai and aiohttp.")
    /\ pc' = "finally"
    /\ UNCHANGED <<fn, context, arg, api_key, logFaulty, now, start_time, session_id,
                   calls, outcomes, agents, search_agent, response, result, current_month,
                   weather_data, exc, ret, raised>>

\* except Exception as e: logger.error(...); print(f"[ERROR] Unexpected error: {e}")
HandleUnexpected ==
    /\ pc = "handler"
    /\ exc.type \notin VendorErrorTypes
    /\ HandlerBody("generic",
                   Record("ERROR", "Unexpected error in entrypoint",
                          [error_type |-> exc.type, error_message |-> exc.message]),
                   "[ERROR] Unexpected error: " \o exc.message)
    /\ pc' = "finally"
    /\ UNCHANGED <<fn, context, arg, api_key, logFaulty, now, start_time, session_id,
                   calls, outcomes, agents, search_agent, response, result, current_month,
                   weather_data, exc, ret, raised>>

\* finally: warnings.warn("If you see 'Unclosed client session' errors, ...")
Finally ==
    /\ pc = "finally"
    /\ sess' = [sess EXCEPT !.warnings = @ + 1]
    /\ IF sess.pending = NoExc
       THEN /\ pc' = "done"
            /\ raised' = raised
       ELSE /\ pc' = "raised"
            /\ raised' = sess.pending
    /\ UNCHANGED <<fn, context, arg, api_key, logFaulty, now, start_time, session_id, log,
                   calls, outcomes, agents, search_agent, response, result, current_month,
                   weather_data, exc, ret>>

----------------------------------------------------------------------------

Next ==
    \/ InvokeSearch
    \/ InvokeWeather
    \/ WeatherSleep
    \/ GenerateWeather
    \/ LogInitiated
    \/ CheckApiKey
    \/ InitClient
    \/ CreateAgent
    \/ StartConversation
    \/ ExtractResult
    \/ DeleteAgent
    \/ Complete
    \/ Except
    \/ InvokeEntrypoint
    \/ ConstructSession
    \/ SessionStart
    \/ Connect
    \/ Greet
    \/ OnEnter
    \/ HandleVendorError
    \/ HandleUnexpected
    \/ Finally

Spec == Init /\ [][Next]_vars

\* The same program with a logger whose calls may raise.
SpecLog == InitLog /\ [][Next]_vars

----------------------------------------------------------------------------
(* Properties *)

RegisteredSearch == {"web_search", "web_search_mistral"}
RegisteredTools == RegisteredSearch \cup {"check_weather"}
Returned == pc = "done"
Finished == pc \in {"done", "raised"}
LastLog == log[Len(log)]
Called(name) == \E k \in 1..Len(calls) : calls[k] = name
WeatherKeys == {"location", "current", "forecast", "metadata"}

\* C1 (as claimed): every invocation of a registered tool function returns a
\* mapping whose only key is "result" or whose only key is "error", and never
\* raises.
C1_ResultOrError ==
    fn \in RegisteredTools =>
        /\ raised = NoExc
        /\ pc # "raised"
        /\ Returned => (DOMAIN ret = {"result"} \/ DOMAIN ret = {"error"})

\* C1 (amended): every invocation of a registered tool function returns,
\* without raising, either an error mapping whose only key is "error" or a
\* success payload without an "error" key: {"result": text} for the search
\* tools, the weather mapping (location, current, forecast, metadata; no
\* "result" key) for check_weather.
C1_PayloadOrError ==
    fn \in RegisteredTools =>
        /\ raised = NoExc
        /\ pc # "raised"
        /\ Returned =>
              \/ DOMAIN ret = {"error"}
              \/ fn \in RegisteredSearch /\ DOMAIN ret = {"result"}
              \/ fn = "check_weather" /\ DOMAIN ret = WeatherKeys

\* C1 witness: check_weather has returned its weather mapping.
C1_Witness ==
    fn = "check_weather" /\ Returned /\ DOMAIN ret = WeatherKeys

\* C2: a search tool invoked with MISTRAL_API_KEY unset or empty makes no
\* remote call and returns {"error": "Mistral API key not configured"}.
C2_MissingKey ==
    (fn \in RegisteredSearch /\ api_key \in {None, ""}) =>
        /\ calls = <<>>
        /\ agents = {}
        /\ pc \in {"initiate", "check_key", "done"}
        /\ Returned => ret = [error |-> "Mistral API key not configured"]

\* C2 witness: a search tool has returned with the key set to the empty string.
C2_Witness ==
    fn \in RegisteredSearch /\ api_key = "" /\ Returned

\* C3: an exception raised by a dependency step of a search tool does not
\* leave the tool: it returns {"error": "Web search failed: <message>"} and
\* the last record logged before the return is the error record with the
\* exception's type name, its message and success = False.
C3_DependencyError ==
    (fn \in RegisteredSearch /\ exc # NoExc) =>
        /\ raised = NoExc
        /\ pc \in {"except", "done"}
        /\ Returned =>
              /\ ret = [error |-> "Web search failed: " \o exc.message]
              /\ Len(log) > 0
              /\ LastLog.level = "ERROR"
              /\ LastLog.message = "Web search failed with exception"
              /\ LastLog.extra.error_type = exc.type
              /\ LastLog.extra.error_message = exc.message
              /\ LastLog.extra.success = FALSE

\* C3 witness: a search tool has returned after the extraction from a
\* too-short response raised IndexError.
C3_Witness ==
    /\ fn \in RegisteredSearch
    /\ Returned
    /\ exc.type = "IndexError"
    /\ Called("conversations.start")

\* The entry point has returned or raised and the persona's hook, if the
\* framework is to run it, has run.
RunOver == fn \in EntryFns /\ Finished /\ (sess.start_done => sess.entered)

\* C4 (as claimed): in every run of an entry point that called start() or
\* connect(), runs in which the call failed included, generate_reply is
\* issued exactly once.
C4_GreetingExactlyOnce ==
    (RunOver /\ (sess.start_calls > 0 \/ sess.connect_calls > 0)) =>
        Len(sess.greetings) = 1

\* C4 (amended): no run of an entry point issues the greeting more than once;
\* a run in which start() and connect() both complete issues it exactly once,
\* from on_enter in voice_executor_v1 and from the entry point in agent_gemini
\* and agent_v2; a run in which start() or connect() does not complete
\* issues none.
C4_GreetingOncePerStartedSession ==
    fn \in EntryFns =>
        /\ Len(sess.greetings) <= 1
        /\ (RunOver /\ sess.start_done /\ sess.connect_done) =>
              sess.greetings = <<IF fn = VoiceEntry THEN "on_enter" ELSE "entrypoint">>
        /\ (RunOver /\ ~(sess.start_done /\ sess.connect_done)) =>
              sess.greetings = <<>>

\* C4 witness: voice_executor_v1 has returned and on_enter has issued the
\* one greeting.
C4_Witness ==
    fn = VoiceEntry /\ Returned /\ sess.greetings = <<"on_enter">>

\* C5: in every entry point the Session is Active, and a greeting has been
\* issued, only when both start() and connect() have completed.
C5_ActiveAfterStartAndConnect ==
    fn \in EntryFns =>
        /\ sess.state = "Active" => (sess.start_done /\ sess.connect_done)
        /\ sess.greetings # <<>> => (sess.start_done /\ sess.connect_done)
        /\ pc = "greet" => (sess.start_done /\ sess.connect_done)

\* C5 witness: agent_gemini has issued its greeting with the Session Active.
C5_Witness ==
    fn = GeminiEntry /\ sess.greetings = <<"entrypoint">> /\ sess.state = "Active"

\* C6: no exception raised while constructing, starting, connecting or
\* greeting the Session leaves an entry point.
C6_NothingPropagates ==
    fn \in EntryFns => (raised = NoExc /\ pc # "raised")

\* C7: a search-tool invocation that created a search agent does not finish
\* without having called agents.delete for it.
C7_DeleteAttempted ==
    (fn \in RegisteredSearch /\ Finished /\ search_agent # NoAgent) =>
        Called("agents.delete")

\* C8: when the search succeeded and the deletion of the search agent
\* raised, the tool logs a warning and no error record, logs the completion
\* record with success = True, and returns {"result": text} with the text
\* extracted from the response.
C8_CleanupFailureIgnored ==
    (fn \in RegisteredSearch /\ Finished /\ Called("agents.delete")
        /\ search_agent \in agents) =>
        /\ Returned
        /\ ret = [result |-> ExtractText(response).text]
        /\ Len(log) >= 2
        /\ LastLog.message = "Web search operation completed"
        /\ LastLog.extra.success = TRUE
        /\ log[Len(log) - 1].level = "WARNING"
        /\ log[Len(log) - 1].message = "Agent cleanup failed"
        /\ \A k \in 1..Len(log) : log[k].level # "ERROR"

\* C8 witness: a search tool has returned after agents.delete raised.
C8_Witness ==
    /\ fn \in RegisteredSearch
    /\ Returned
    /\ Called("agents.delete")
    /\ search_agent \in agents

C10_WeatherSchema ==
    (fn = "check_weather" /\ Returned /\ DOMAIN ret # {"error"}) =>
        /\ DOMAIN ret = WeatherKeys
        /\ DOMAIN ret.location = {"city", "country", "coordinates"}
        /\ DOMAIN ret.location.coordinates = {"latitude", "longitude"}
        /\ DOMAIN ret.current = {"timestamp", "temperature", "weather", "atmospheric",
                                 "wind", "sun", "indices"}
        /\ DOMAIN ret.current.temperature = {"current", "feels_like", "unit"}
        /\ DOMAIN ret.current.weather = {"main", "description", "icon"}
        /\ DOMAIN ret.current.atmospheric = {"humidity", "pressure", "pressure_unit",
                                             "visibility", "visibility_unit"}
        /\ DOMAIN ret.current.wind = {"speed", "direction", "gust", "unit"}
        /\ DOMAIN ret.current.sun = {"sunrise", "sunset"}
        /\ DOMAIN ret.current.indices = {"uv_index", "air_quality_index",
                                         "air_quality_description"}
        /\ DOMAIN ret.forecast = {"summary", "next_24h"}
        /\ DOMAIN ret.metadata = {"source", "last_updated", "response_time_ms"}
        /\ ret.current.temperature.current \in Int
        /\ ret.current.temperature.feels_like \in Int
        /\ ret.current.atmospheric.humidity \in 20..100
        /\ ret.current.atmospheric.pressure \in 980..1040
        /\ ret.current.wind.direction \in 0..360
        /\ ret.current.indices.uv_index \in 0..11

\* C10 witness: check_weather has returned a payload in July with humidity
\* 100, pressure 1040, wind direction 360 and UV index 11.
C10_Witness ==
    /\ fn = "check_weather"
    /\ Returned
    /\ DOMAIN ret = WeatherKeys
    /\ current_month = 7
    /\ ret.current.atmospheric.humidity = 100
    /\ ret.current.atmospheric.pressure = 1040
    /\ ret.current.wind.direction = 360
    /\ ret.current.indices.uv_index = 11

\* The title-cased spelling of each city name of the model, written out.
TitleCased(chars) ==
    CASE chars = <<"P", "a", "r", "i", "s">> -> <<"P", "a", "r", "i", "s">>
      [] chars = <<"p", "A", "R", "I", "S">> -> <<"P", "a", "r", "i", "s">>
      [] chars = <<"s", "a", " ", "p", "a", "r">> -> <<"S", "a", " ", "P", "a", "r">>
      [] chars = <<"i", "'", "s">> -> <<"I", "'", "S">>

\* C11: a non-error payload of check_weather has location.city equal to the
\* title-cased city argument ("Paris" yields "Paris") and
\* current.temperature.unit equal to "°C", whatever the random draws.
C11_CityAndUnit ==
    (fn = "check_weather" /\ Returned /\ DOMAIN ret # {"error"}) =>
        /\ ret.location.city = TitleCased(arg.chars)
        /\ ret.current.temperature.unit = "°C"

\* C11 witness: check_weather has returned a payload for the city
\* "sa par", whose second word is capitalised too.
C11_Witness ==
    /\ fn = "check_weather"
    /\ Returned
    /\ DOMAIN ret = WeatherKeys
    /\ arg.chars = <<"s", "a", " ", "p", "a", "r">>
    /\ ret.location.city = <<"S", "a", " ", "P", "a", "r">>

\* The position of a Session state in Unstarted, Starting, Active, Failed.
StateRank(s) ==
    CASE s = "Unstarted" -> 0
      [] s = "Starting" -> 1
      [] s = "Active" -> 2
      [] s = "Failed" -> 3

\* A call of the run has failed.
HasFailed ==
    raised # NoExc \/ exc # NoExc \/ sess.state = "Failed" \/ sess.pending # NoExc

\* One step of a run of an entry point keeps the lifecycle forward-only.
ForwardStep ==
    fn \in EntryFns =>
        /\ StateRank(sess'.state) >= StateRank(sess.state)
        /\ sess.state = "Failed" => sess'.state = "Failed"
        /\ sess'.start_calls <= 1
        /\ sess'.connect_calls <= 1
        /\ HasFailed =>
              /\ sess'.start_calls = sess.start_calls
              /\ sess'.connect_calls = sess.connect_calls
              /\ sess'.greetings = sess.greetings

\* C12: in a run of an entry point the Session state only moves forward
\* (Unstarted, Starting, Active, Failed), Failed is final, start() and
\* connect() are each called at most once, and once a call has failed no
\* further start, connect or generate_reply call is made.
C12_ForwardOnly == [][ForwardStep]_vars

\* C12 witness: agent_gemini has ended with the Session Failed after one
\* start() and one failed connect(), and the hook has run since.
C12_Witness ==
    /\ fn = GeminiEntry
    /\ pc = "raised"
    /\ sess.state = "Failed"
    /\ sess.start_calls = 1
    /\ sess.connect_calls = 1
    /\ sess.entered
    /\ sess.greetings = <<>>

----------------------------------------------------------------------------
(* The test script against the registered search tool *)

\* The four calls a search makes to the Mistral SDK, in order.
SearchCalls == <<"Mistral", "agents.create", "conversations.start", "agents.delete">>

\* The first of the first three SDK calls that raised, 0 if none did: a failure
\* of the fourth, the deletion, is contained.
FirstFailure(outs) ==
    IF \E k \in 1..Len(outs) : k <= 3 /\ ~IsOk(outs[k])
    THEN CHOOSE k \in 1..Len(outs) :
            /\ k <= 3 /\ ~IsOk(outs[k])
            /\ \A j \in 1..(k - 1) : IsOk(outs[j])
    ELSE 0

\* The calls a search makes given the key, what the SDK calls did and the
\* conversation's response: a response without the text stops it before the
\* deletion.
ExpectedCalls(key, outs, resp) ==
    IF key \in {None, ""} THEN <<>>
    ELSE IF FirstFailure(outs) # 0 THEN SubSeq(SearchCalls, 1, FirstFailure(outs))
    ELSE IF ~ExtractText(resp).ok THEN SubSeq(SearchCalls, 1, 3)
    ELSE SearchCalls

\* The result or error a search returns given the key, what the SDK calls did
\* and the conversation's response.
ExpectedAnswer(key, outs, resp) ==
    IF key \in {None, ""} THEN [error |-> "Mistral API key not configured"]
    ELSE IF FirstFailure(outs) # 0
    THEN [error |-> "Web search failed: " \o outs[FirstFailure(outs)].message]
    ELSE IF ~ExtractText(resp).ok
    THEN [error |-> "Web search failed: " \o ExtractText(resp).exc.message]
    ELSE [result |-> ExtractText(resp).text]

\* The result or error part of a returned mapping.
Answer(r) == [k \in DOMAIN r \cap {"result", "error"} |-> r[k]]

\* C13: test_web_search reproduces web_search. For the same key, the same
\* behaviour of the SDK calls and the same response, both make the same
\* sequence of remote calls and return the same result or error; the test
\* script's success flag is true exactly when a result is returned and is
\* never true beside an error.
C13_TestReproducesTool ==
    (fn \in {"web_search", "test_web_search"} /\ Returned) =>
        /\ calls = ExpectedCalls(api_key, outcomes, response)
        /\ Len(outcomes) = Len(calls)
        /\ Answer(ret) = ExpectedAnswer(api_key, outcomes, response)
        /\ DOMAIN Answer(ret) \in {{"result"}, {"error"}}
        /\ fn = "test_web_search" =>
              (("success" \in DOMAIN ret /\ ret.success) <=> "result" \in DOMAIN ret)
        /\ fn = "web_search" => DOMAIN ret = DOMAIN Answer(ret)

\* The test script returns an error after the conversation call failed, having
\* made three calls and flagged the run as not successful.
C13_Witness ==
    /\ fn = "test_web_search" /\ Returned
    /\ calls = SubSeq(SearchCalls, 1, 3)
    /\ ~IsOk(outcomes[3])
    /\ "error" \in DOMAIN ret /\ ret.success = FALSE

----------------------------------------------------------------------------
(* The except clauses and the finally block of agent_v2.entrypoint *)

\* The handler that has to run for an exception of type t.
HandlerFor(t) ==
    IF t \in {"APIConnectionError", "JSONDecodeError"} THEN "vendor" ELSE "generic"

\* The message of the error record each handler logs.
HandlerMessage(h) ==
    IF h = "vendor" THEN "LLM streaming or API connection error encountered"
    ELSE "Unexpected error in entrypoint"

\* C14: in agent_v2.entrypoint, whatever start, connect and greet do: when all
\* three succeed no handler runs, nothing is logged and nothing is printed;
\* when one fails exactly one handler runs, the vendor one for
\* APIConnectionError and JSONDecodeError and the generic one otherwise, and
\* it logs one error record and prints one line; the unclosed-transport
\* warning is emitted exactly once on every path, as the last step, the
\* Session is left as the failure left it and no exception leaves the entry
\* point.
C14_OneHandlerThenWarning ==
    (fn = V2Entry /\ sess.constructed) =>
        /\ sess.warnings = (IF Finished THEN 1 ELSE 0)
        /\ (pc \in {"start", "connect", "greet", "handler"}) =>
              sess.handlers = <<>> /\ log = <<>> /\ sess.printed = <<>>
        /\ (pc \in {"finally", "done", "raised"} /\ exc = NoExc) =>
              /\ sess.handlers = <<>> /\ log = <<>> /\ sess.printed = <<>>
              /\ sess.state = "Active"
        /\ (pc \in {"finally", "done", "raised"} /\ exc # NoExc) =>
              /\ sess.handlers = <<HandlerFor(exc.type)>>
              /\ Len(log) = 1
              /\ log[1].level = "ERROR"
              /\ log[1].message = HandlerMessage(HandlerFor(exc.type))
              /\ log[1].extra.error_type = exc.type
              /\ Len(sess.printed) = 1
              /\ sess.state = "Failed"
        /\ pc # "raised"

\* A run whose greeting failed with a JSONDecodeError has ended: the vendor
\* handler ran once and the warning was emitted once.
C14_Witness ==
    /\ fn = V2Entry /\ pc = "done"
    /\ exc.type = "JSONDecodeError"
    /\ sess.greetings = <<"entrypoint">>
    /\ sess.handlers = <<"vendor">>
    /\ Len(log) = 1 /\ Len(sess.printed) = 1
    /\ sess.warnings = 1

----------------------------------------------------------------------------
(* The initiation record and the final record of a tool invocation *)

\* The records of the log that carry an outcome flag.
FinalRecords == {k \in 1..Len(log) : "success" \in DOMAIN log[k].extra}

\* C15: a tool invocation that returns has logged its initiation record first
\* and exactly one final record, the last one, which carries the session
\* identifier, a duration in seconds and the flag success, true exactly when
\* the returned payload is not an error; on every return path, the
\* missing-API-key path included.
C15_FinalRecord ==
    (fn \in RegisteredTools /\ Returned) =>
        /\ Len(log) >= 2
        /\ log[1].message = InitiatedMessage(fn)
        /\ FinalRecords = {Len(log)}
        /\ {"session_id", "total_duration_seconds", "success"} \subseteq DOMAIN LastLog.extra
        /\ LastLog.extra.session_id = session_id
        /\ LastLog.extra.total_duration_seconds = now - start_time
        /\ LastLog.extra.success = ("error" \notin DOMAIN ret)

----------------------------------------------------------------------------
(* The air-quality index and its description *)

\* C16: the air-quality index of a returned weather mapping is an integer in
\* 1..5, the lookup of its description by index - 1 is inside the list, and
\* the description follows the scale of the comment at the draw: 1 is Good
\* and 5 is Hazardous.
C16_AirQualityScale ==
    (fn = "check_weather" /\ Returned /\ DOMAIN ret = WeatherKeys) =>
        LET index == ret.current.indices.air_quality_index
            description == ret.current.indices.air_quality_description
        IN /\ index \in 1..5
           /\ index - 1 \in 0..(Len(AirQualityDescriptions) - 1)
           /\ index = 1 => description = "Good"
           /\ index = 5 => description = "Hazardous"

----------------------------------------------------------------------------
(* The range of the reported temperature, in tenths of a degree *)

\* The highest seasonal base temperature of a month.
SeasonMax(month) ==
    CASE month \in {12, 1, 2} -> 150
      [] month \in {3, 4, 5} -> 250
      [] month \in {6, 7, 8} -> 350
      [] OTHER -> 200

\* C17: in every month and for every selected condition the reported current
\* temperature lies in [-15, 35] degrees; for Snow it lies in [-15, 5] in
\* every month; for Rain it is at most the seasonal maximum minus 2 and for
\* Thunderstorm at most the seasonal maximum minus 3; feels_like is within 5
\* degrees of the current temperature.
C17_TemperatureRange ==
    (fn = "check_weather" /\ Returned /\ DOMAIN ret = WeatherKeys) =>
        LET temperature == ret.current.temperature.current
            feels_like == ret.current.temperature.feels_like
            main == ret.current.weather.main
        IN /\ current_month \in 1..12
           /\ temperature \in -150..350
           /\ temperature <= SeasonMax(current_month)
           /\ main = "Snow" => temperature \in -150..50
           /\ main = "Rain" => temperature <= SeasonMax(current_month) - 20
           /\ main = "Thunderstorm" => temperature <= SeasonMax(current_month) - 30
           /\ feels_like - temperature \in -50..50

\* Snow was selected in July: the reported temperature is the top of the
\* snow range and feels_like is 5 degrees above it.
C17_Witness ==
    /\ fn = "check_weather" /\ Returned /\ DOMAIN ret = WeatherKeys
    /\ current_month = 7
    /\ ret.current.weather.main = "Snow"
    /\ ret.current.temperature.current = 50
    /\ ret.current.temperature.feels_like = 100

====
